---- MODULE Spec2Model ----
(***************************************************************************)
(* Model of Source/Core/EllipsoidGeometry.js: the EllipsoidGeometry        *)
(* constructor and its two helpers addEdgePositions and addFaceTriangles.  *)
(*                                                                         *)
(* Arithmetic is exact.  A Cartesian3 is a record [x, y, z, unit, scale]   *)
(* of integers standing for the real vector                                *)
(*     (x, y, z) / D  multiplied component-wise by scale,                  *)
(* where D is numberOfPartitions when unit is FALSE (cube space: every     *)
(* coordinate the constructor builds is a multiple of 1/numberOfPartitions)*)
(* and D is the Euclidean length of (x, y, z) when unit is TRUE (the       *)
(* result of normalize).                                                   *)
(*                                                                         *)
(* A JavaScript array is a sequence; JavaScript index k is element k + 1.  *)
(* Vertex indices stored in arrays are the JavaScript (0-based) indices.   *)
(***************************************************************************)
EXTENDS Integers, Sequences, FiniteSets, TLC

\* Largest partition count explored.
MaxN == 3

\* Number of non-positive partition counts explored (0, -1, ...).
MaxNeg == 1

\* A hole of a sparse JavaScript array (an element never assigned).
Undefined == -1

One == <<1, 1, 1>>

\* Ellipsoid.UNIT_SPHERE and one ellipsoid with three different radii.
RadiiValues == {One, <<1, 2, 3>>}

NValues == (0 - MaxNeg)..MaxN

----------------------------------------------------------------------------
\* Cartesian3

Cartesian3(x, y, z, N) ==
    [x |-> x * N, y |-> y * N, z |-> z * N, unit |-> FALSE, scale |-> One]

\* left.add(right), for vectors that are not normalized.
add(a, b) ==
    [x |-> a.x * a.scale[1] + b.x * b.scale[1],
     y |-> a.y * a.scale[2] + b.y * b.scale[2],
     z |-> a.z * a.scale[3] + b.z * b.scale[3],
     unit |-> FALSE, scale |-> One]

\* left.subtract(right), for vectors that are not normalized.
subtract(a, b) ==
    [x |-> a.x * a.scale[1] - b.x * b.scale[1],
     y |-> a.y * a.scale[2] - b.y * b.scale[2],
     z |-> a.z * a.scale[3] - b.z * b.scale[3],
     unit |-> FALSE, scale |-> One]

\* v.multiplyByScalar(num / den).  The constructor only scales differences of
\* corners by i / numberOfPartitions, so the division below is exact.
multiplyByScalar(v, num, den) ==
    [v EXCEPT !.x = (v.x * num) \div den,
              !.y = (v.y * num) \div den,
              !.z = (v.z * num) \div den]

\* Cartesian3.normalize(c, result)
normalize(c) ==
    [x |-> c.x * c.scale[1], y |-> c.y * c.scale[2], z |-> c.z * c.scale[3],
     unit |-> TRUE, scale |-> One]

\* Cartesian3.multiplyComponents(c, r, result), r a triple of radii
multiplyComponents(c, r) ==
    [c EXCEPT !.scale = <<c.scale[1] * r[1], c.scale[2] * r[2], c.scale[3] * r[3]>>]

\* ellipsoid.geodeticSurfaceNormal(cartesian, result): the call, kept as the
\* ellipsoid and the argument it was given.
geodeticSurfaceNormal(radii, cartesian) ==
    [radii |-> radii, at |-> cartesian]

\* BoundingSphere.fromEllipsoid(ellipsoid)
fromEllipsoid(radii) ==
    [boundingSphereOf |-> radii]

----------------------------------------------------------------------------
\* JavaScript arrays

At(arr, k) == arr[k + 1]

\* arr[k] = val, growing the array with holes when k is past its end.
Put(arr, k, val) ==
    IF k + 1 <= Len(arr)
    THEN [arr EXCEPT ![k + 1] = val]
    ELSE arr \o [h \in 1..(k - Len(arr)) |-> Undefined] \o <<val>>

\* arr.slice(0)
slice(arr) == arr

\* A call site of lines 105-107 that passes the edge list as it is.
reverseForgotten(arr) == arr

\* arr.reverse(), on the copy slice(0) made
reverse(arr) == [k \in 1..Len(arr) |-> arr[Len(arr) + 1 - k]]

\* A JavaScript object is a function from the names of its own properties.
EmptyObject == [k \in {} |-> 0]

\* obj[key] = val
SetProperty(obj, key, val) ==
    [k \in DOMAIN obj \cup {key} |-> IF k = key THEN val ELSE obj[k]]

----------------------------------------------------------------------------
VARIABLES
    options,      \* the constructor's argument, after the defaults
    pc,           \* the constructor's position
    positions,    \* var positions
    indices,      \* var indices
    edges,        \* the edge index lists returned so far, in call order
    faceCalls,    \* number of addFaceTriangles calls made
    attributes,   \* var attributes
    normalInputs, \* the arguments given to geodeticSurfaceNormal, in order
    cubeSpace,    \* history: the position buffer as line 111 found it
    this          \* the object under construction

vars == <<options, pc, positions, indices, edges, faceCalls, attributes,
          normalInputs, cubeSpace, this>>

N == options.numberOfPartitions

Init ==
    /\ options \in [ellipsoid : RadiiValues,
                    numberOfPartitions : NValues,
                    vertexFormat : [position : BOOLEAN, normal : BOOLEAN],
                    modelMatrix : {"undefined", "M"},
                    pickData : {"pick"}]
    /\ pc = "start"
    /\ positions = <<>>
    /\ indices = <<>>
    /\ edges = <<>>
    /\ faceCalls = 0
    /\ attributes = EmptyObject
    /\ normalInputs = <<>>
    /\ cubeSpace = <<>>
    /\ this = EmptyObject

----------------------------------------------------------------------------
\* The check of line 44 with < written for <=.
NotPositiveStrict(n) == n < 0

\* Line 44: the precondition check.
NotPositive(n) == n <= 0

Throw ==
    /\ pc = "start"
    /\ NotPositive(N)
    /\ pc' = "thrown"
    /\ UNCHANGED <<options, positions, indices, edges, faceCalls, attributes,
                   normalInputs, cubeSpace, this>>

\* Lines 65-72 with the pushes of p1 and p3 (and of p5 and p7) exchanged.
CubeCornersClockwise(n) ==
    << Cartesian3(-1, 0, -1, n), Cartesian3(0, 1, -1, n),
       Cartesian3(1, 0, -1, n),  Cartesian3(0, -1, -1, n),
       Cartesian3(-1, 0, 1, n),  Cartesian3(0, 1, 1, n),
       Cartesian3(1, 0, 1, n),   Cartesian3(0, -1, 1, n) >>

\* Lines 65-72: the 8 corners, in push order.
CubeCorners(n) ==
    << Cartesian3(-1, 0, -1, n), Cartesian3(0, -1, -1, n),
       Cartesian3(1, 0, -1, n),  Cartesian3(0, 1, -1, n),
       Cartesian3(-1, 0, 1, n),  Cartesian3(0, -1, 1, n),
       Cartesian3(1, 0, 1, n),   Cartesian3(0, 1, 1, n) >>

InitialCube ==
    /\ pc = "start"
    /\ ~NotPositive(N)
    /\ positions' = CubeCorners(N)
    /\ indices' = <<>>
    /\ pc' = "edges"
    /\ UNCHANGED <<options, edges, faceCalls, attributes, normalInputs,
                   cubeSpace, this>>

----------------------------------------------------------------------------
\* addEdgePositions

\* Line 190 with the trailing "- 1" left out.
EdgeEndSlotPastEnd(n) == 2 + (n - 1)

\* Line 190: the index of the last element of the returned list.
EdgeEndSlot(n) == 2 + (n - 1) - 1

\* The loop of lines 195-200 with i <= numberOfPartitions for its bound.
RECURSIVE EdgeLoopInclusive(_, _, _, _, _)
EdgeLoopInclusive(st, i, origin, direction, n) ==
    IF i <= n
    THEN EdgeLoopInclusive(
             [indices |-> Put(st.indices, i, Len(st.positions)),
              positions |-> Append(st.positions,
                                   add(origin, multiplyByScalar(direction, i, n)))],
             i + 1, origin, direction, n)
    ELSE st

\* Lines 195-200: the loop, from iteration i on; st = [indices, positions].
RECURSIVE EdgeLoop(_, _, _, _, _)
EdgeLoop(st, i, origin, direction, n) ==
    IF i < n
    THEN EdgeLoop([indices |-> Put(st.indices, i, Len(st.positions)),
                   positions |-> Append(st.positions,
                                        add(origin, multiplyByScalar(direction, i, n)))],
                  i + 1, origin, direction, n)
    ELSE st

\* Returns [indices |-> the returned list, positions |-> the buffer afterwards].
addEdgePositions(i0, i1, n, pos) ==
    LET first == Put(Put(<<>>, 0, i0), EdgeEndSlot(n), i1)
        origin == At(pos, i0)
        direction == subtract(At(pos, i1), At(pos, i0))
    IN EdgeLoop([indices |-> first, positions |-> pos], 1, origin, direction, n)

\* Lines 81-94: the corner pairs of the 12 calls, in call order.
EdgeCorners ==
    << <<0, 1>>, <<1, 2>>, <<2, 3>>, <<3, 0>>,
       <<4, 5>>, <<5, 6>>, <<6, 7>>, <<7, 4>>,
       <<0, 4>>, <<1, 5>>, <<2, 6>>, <<3, 7>> >>

AddEdge ==
    /\ pc = "edges"
    /\ LET c == EdgeCorners[Len(edges) + 1]
           r == addEdgePositions(c[1], c[2], N, positions)
       IN /\ edges' = Append(edges, r.indices)
          /\ positions' = r.positions
          /\ pc' = IF Len(edges) + 1 = Len(EdgeCorners) THEN "faces" ELSE "edges"
    /\ UNCHANGED <<options, indices, faceCalls, attributes, normalInputs,
                   cubeSpace, this>>

----------------------------------------------------------------------------
\* addFaceTriangles

\* The array a local alias (bottomIndices, topIndices) refers to.  st holds
\* the two row buffers; a holds the four edge lists handed to the call.
Deref(ref, st, a) ==
    CASE ref = "bottomLeftToRight" -> a.bottomLeftToRight
      [] ref = "topLeftToRight" -> a.topLeftToRight
      [] ref = "bottomIndicesBuffer" -> st.bottomIndicesBuffer
      [] ref = "topIndicesBuffer" -> st.topIndicesBuffer

\* The loop of lines 232-238 with i <= numberOfPartitions for its bound.
RECURSIVE RowLoopInclusive(_, _, _, _, _, _, _)
RowLoopInclusive(st, i, origin, offsetY, x, n, a) ==
    IF i <= n
    THEN RowLoopInclusive(
             [st EXCEPT
                !.topIndicesBuffer = Put(@, i, Len(st.positions)),
                !.positions = Append(@, add(add(origin, multiplyByScalar(x, i, n)),
                                            offsetY))],
             i + 1, origin, offsetY, x, n, a)
    ELSE st

\* Lines 232-238: the loop over i, from iteration i on.
RECURSIVE RowLoop(_, _, _, _, _, _, _)
RowLoop(st, i, origin, offsetY, x, n, a) ==
    IF i < n
    THEN RowLoop([st EXCEPT
                    !.topIndicesBuffer = Put(@, i, Len(st.positions)),
                    !.positions = Append(@, add(add(origin, multiplyByScalar(x, i, n)),
                                                offsetY))],
                 i + 1, origin, offsetY, x, n, a)
    ELSE st

\* Lines 247-253 with the last two pushes of each triangle exchanged.
CellTrianglesFlipped(bottomRow, topRow, k) ==
    << At(bottomRow, k), At(topRow, k + 1), At(bottomRow, k + 1),
       At(bottomRow, k), At(topRow, k),     At(topRow, k + 1) >>

\* Lines 247-253 with the second triangle left out.
CellTrianglesFirstOnly(bottomRow, topRow, k) ==
    << At(bottomRow, k), At(bottomRow, k + 1), At(topRow, k + 1) >>

\* Lines 247-253: the two triangles of cell k.
CellTriangles(bottomRow, topRow, k) ==
    << At(bottomRow, k), At(bottomRow, k + 1), At(topRow, k + 1),
       At(bottomRow, k), At(topRow, k + 1),    At(topRow, k) >>

\* Lines 246-254: the loop over k, from iteration k on.
RECURSIVE TriangleLoop(_, _, _, _, _)
TriangleLoop(ind, bottomRow, topRow, k, n) ==
    IF k < n
    THEN TriangleLoop(ind \o CellTriangles(bottomRow, topRow, k),
                      bottomRow, topRow, k + 1, n)
    ELSE ind

\* Lines 217-244 with line 222 written without slice(0): bottomIndices then
\* refers to the very array the new top row is written into.
RowSetupAliased(st, j, origin, x, y, n, a) ==
    IF j # n
    THEN LET aliased == IF j # 1
                        THEN [st EXCEPT !.bottomIndices = "topIndicesBuffer"]
                        ELSE st
             ends == [aliased EXCEPT
                        !.topIndicesBuffer =
                            Put(Put(@, 0, At(a.leftBottomToTop, j)),
                                n, At(a.rightBottomToTop, j))]
         IN RowLoop(ends, 1, origin, multiplyByScalar(y, j, n), x, n, a)
    ELSE [st EXCEPT !.bottomIndices = IF j # 1 THEN "topIndicesBuffer" ELSE @,
                    !.topIndices = "topLeftToRight"]

\* Lines 217-244: the row set-up of iteration j.
RowSetup(st, j, origin, x, y, n, a) ==
    IF j # n
    THEN LET copied == IF j # 1
                       THEN [st EXCEPT !.bottomIndicesBuffer = slice(st.topIndicesBuffer),
                                       !.bottomIndices = "bottomIndicesBuffer"]
                       ELSE st
             ends == [copied EXCEPT
                        !.topIndicesBuffer =
                            Put(Put(@, 0, At(a.leftBottomToTop, j)),
                                n, At(a.rightBottomToTop, j))]
         IN RowLoop(ends, 1, origin, multiplyByScalar(y, j, n), x, n, a)
    ELSE [st EXCEPT !.bottomIndices = IF j # 1 THEN "topIndicesBuffer" ELSE @,
                    !.topIndices = "topLeftToRight"]

\* Lines 216-255: one iteration of the loop over j.
FaceRow(st, j, origin, x, y, n, a) ==
    LET s == RowSetup(st, j, origin, x, y, n, a)
    IN [s EXCEPT !.indices = TriangleLoop(@, Deref(s.bottomIndices, s, a),
                                          Deref(s.topIndices, s, a), 0, n)]

RECURSIVE FaceRows(_, _, _, _, _, _, _)
FaceRows(st, j, origin, x, y, n, a) ==
    IF j <= n
    THEN FaceRows(FaceRow(st, j, origin, x, y, n, a), j + 1, origin, x, y, n, a)
    ELSE st

\* a = the four edge lists; returns the locals at the end of the call, with
\* the position and index buffers as the call leaves them.
addFaceTriangles(a, n, pos, ind) ==
    LET origin == At(pos, At(a.bottomLeftToRight, 0))
        x == subtract(At(pos, At(a.bottomLeftToRight, Len(a.bottomLeftToRight) - 1)),
                      origin)
        y == subtract(At(pos, At(a.topLeftToRight, 0)), origin)
        st0 == [bottomIndicesBuffer |-> <<>>, topIndicesBuffer |-> <<>>,
                bottomIndices |-> "bottomLeftToRight",
                topIndices |-> "topIndicesBuffer",
                positions |-> pos, indices |-> ind]
    IN FaceRows(st0, 1, origin, x, y, n, a)

\* Lines 81-94: the edge lists by the names the constructor gives them.
edge0to1(e) == e[1]
edge1to2(e) == e[2]
edge2to3(e) == e[3]
edge3to0(e) == e[4]
edge4to5(e) == e[5]
edge5to6(e) == e[6]
edge6to7(e) == e[7]
edge7to4(e) == e[8]
edge0to4(e) == e[9]
edge1to5(e) == e[10]
edge2to6(e) == e[11]
edge3to7(e) == e[12]

FaceBoundary(l, b, r, t) ==
    [leftBottomToTop |-> l, bottomLeftToRight |-> b,
     rightBottomToTop |-> r, topLeftToRight |-> t]

\* Lines 96-107: the arguments of the 6 calls, in call order.
FaceArgs(f, e) ==
    CASE f = 1 -> FaceBoundary(edge0to4(e), edge0to1(e), edge1to5(e), edge4to5(e))
      [] f = 2 -> FaceBoundary(edge1to5(e), edge1to2(e), edge2to6(e), edge5to6(e))
      [] f = 3 -> FaceBoundary(edge2to6(e), edge2to3(e), edge3to7(e), edge6to7(e))
      [] f = 4 -> FaceBoundary(edge3to7(e), edge3to0(e), edge0to4(e), edge7to4(e))
      [] f = 5 -> FaceBoundary(reverse(slice(edge7to4(e))), edge4to5(e),
                               edge5to6(e), reverse(slice(edge6to7(e))))
      [] f = 6 -> FaceBoundary(edge1to2(e), reverse(slice(edge0to1(e))),
                               reverse(slice(edge3to0(e))), edge2to3(e))

NumberOfFaces == 6

AddFace ==
    /\ pc = "faces"
    /\ LET r == addFaceTriangles(FaceArgs(faceCalls + 1, edges), N, positions, indices)
       IN /\ positions' = r.positions
          /\ indices' = r.indices
    /\ faceCalls' = faceCalls + 1
    /\ pc' = IF faceCalls + 1 = NumberOfFaces THEN "position" ELSE "faces"
    /\ UNCHANGED <<options, edges, attributes, normalInputs, cubeSpace, this>>

----------------------------------------------------------------------------
\* Lines 115-154: the attributes

\* Lines 123-124: the in-place projection of one position.
Project(item, radii) == multiplyComponents(normalize(item), radii)

\* Lines 125-127 and 144-146: the three components of each vector, flattened.
Flatten(vectors) ==
    [k \in 1..(3 * Len(vectors)) |->
        [of |-> vectors[((k - 1) \div 3) + 1], component |-> ((k - 1) % 3) + 1]]

\* Lines 115-135
PositionAttribute ==
    /\ pc = "position"
    /\ IF options.vertexFormat.position
       THEN LET projected == [i \in 1..Len(positions) |->
                                 Project(positions[i], options.ellipsoid)]
            IN /\ positions' = projected
               /\ attributes' = SetProperty(attributes, "position", Flatten(projected))
       ELSE UNCHANGED <<positions, attributes>>
    /\ cubeSpace' = positions
    /\ pc' = "normal"
    /\ UNCHANGED <<options, indices, edges, faceCalls, normalInputs, this>>

\* Lines 137-154
NormalAttribute ==
    /\ pc = "normal"
    /\ IF options.vertexFormat.normal
       THEN /\ normalInputs' = positions
            /\ attributes' = SetProperty(attributes, "normal",
                   Flatten([i \in 1..Len(positions) |->
                               geodeticSurfaceNormal(options.ellipsoid, positions[i])]))
       ELSE UNCHANGED <<normalInputs, attributes>>
    /\ pc' = "assign"
    /\ UNCHANGED <<options, positions, indices, edges, faceCalls, cubeSpace, this>>

\* Lines 159-184
AssignFields ==
    /\ pc = "assign"
    /\ this' = [attributes |-> attributes,
                indexLists |-> <<[primitiveType |-> "TRIANGLES", values |-> indices]>>,
                boundingSphere |-> fromEllipsoid(options.ellipsoid),
                modelMatrix |-> IF options.modelMatrix = "undefined"
                                THEN "IDENTITY" ELSE options.modelMatrix,
                pickData |-> options.pickData]
    /\ pc' = "done"
    /\ UNCHANGED <<options, positions, indices, edges, faceCalls, attributes,
                   normalInputs, cubeSpace>>

Next ==
    \/ Throw
    \/ InitialCube
    \/ AddEdge
    \/ AddFace
    \/ PositionAttribute
    \/ NormalAttribute
    \/ AssignFields

Spec == Init /\ [][Next]_vars

----------------------------------------------------------------------------
\* Properties

\* The constructor is past its 12 addEdgePositions and 6 addFaceTriangles calls.
Tessellated == pc \in {"position", "normal", "assign", "done"}

\* The positions are still in cube space (no projection has run).
InCubeSpace == pc \in {"edges", "faces", "position"}

PositionCount(n) == 8 + 12 * (n - 1) + 6 * (n - 1) * (n - 1)

\* C1: for N >= 1, after the 8 corner pushes, the 12 addEdgePositions calls
\* and the 6 addFaceTriangles calls the position buffer holds exactly
\* 8 + 12(N-1) + 6(N-1)^2 positions, and every attribute array that was
\* generated holds 3 times that many values.
C1_PositionCount ==
    (N >= 1 /\ Tessellated) =>
        /\ Len(positions) = PositionCount(N)
        /\ \A name \in DOMAIN attributes :
               Len(attributes[name]) = 3 * PositionCount(N)
        /\ pc = "done" =>
               \A name \in DOMAIN this.attributes :
                   Len(this.attributes[name]) = 3 * PositionCount(N)

C1_Witness ==
    /\ pc = "done"
    /\ N = 3
    /\ DOMAIN this.attributes = {"position", "normal"}
    /\ Len(positions) = 56

\* The indices pushed by the f-th addFaceTriangles call, when every call
\* pushes 6 * N * N of them.
FaceIndices(f) == SubSeq(indices, (f - 1) * 6 * N * N + 1, f * 6 * N * N)

\* C2: for N >= 1 each of the 6 addFaceTriangles calls appends exactly
\* 2 N^2 triangles, so the index buffer handed out in indexLists[0] holds
\* 12 N^2 triangles (36 N^2 indices); for N = 1 each face is exactly two
\* triangles over 4 of the 8 corners.
C2_TriangleCount ==
    (N >= 1 /\ pc \notin {"start", "edges"}) =>
        /\ Len(indices) = faceCalls * 6 * N * N
        /\ Tessellated => Len(indices) = 36 * N * N
        /\ pc = "done" =>
               /\ Len(this.indexLists) = 1
               /\ Len(this.indexLists[1].values) = 3 * (12 * N * N)
        /\ N = 1 =>
               \A f \in 1..faceCalls :
                   LET used == {FaceIndices(f)[k] : k \in 1..6}
                   IN /\ Cardinality(used) = 4
                      /\ used \subseteq 0..7

C2_Witness ==
    /\ pc = "done"
    /\ N = 1
    /\ Len(this.indexLists[1].values) = 36

\* C3: when numberOfPartitions is 0 or negative the constructor throws before
\* any buffer work: no position, no index, no edge list, no attribute, and no
\* field of the geometry is ever assigned.
C3_ThrowsBeforeWork ==
    N <= 0 =>
        /\ pc \in {"start", "thrown"}
        /\ positions = <<>>
        /\ indices = <<>>
        /\ edges = <<>>
        /\ faceCalls = 0
        /\ normalInputs = <<>>
        /\ cubeSpace = <<>>
        /\ DOMAIN attributes = {}
        /\ DOMAIN this = {}

C3_Witness ==
    /\ pc = "thrown"
    /\ N = 0

\* C5: for N >= 1 no two entries of the position buffer hold the same
\* cube-space point, at any time before the projection.
C5_NoDuplicatePositions ==
    (N >= 1 /\ InCubeSpace) =>
        \A i, j \in 1..Len(positions) : i # j => positions[i] # positions[j]

C5_Witness ==
    /\ pc = "position"
    /\ N = 3
    /\ Len(positions) = 56

----------------------------------------------------------------------------
\* Vector algebra on the integer coordinates of cube-space positions.  All of
\* it is homogeneous, so the common denominator N plays no part.

Vec(c) == <<c.x, c.y, c.z>>

Minus(u, v) == <<u[1] - v[1], u[2] - v[2], u[3] - v[3]>>

Plus(u, v) == <<u[1] + v[1], u[2] + v[2], u[3] + v[3]>>

Times(k, u) == <<k * u[1], k * u[2], k * u[3]>>

Cross(u, v) ==
    <<u[2] * v[3] - u[3] * v[2], u[3] * v[1] - u[1] * v[3], u[1] * v[2] - u[2] * v[1]>>

Dot(u, v) == u[1] * v[1] + u[2] * v[2] + u[3] * v[3]

\* The cube-space point of vertex index v (0-based) in buffer pos.
Point(pos, v) == Vec(At(pos, v))

NumberOfTriangles == Len(indices) \div 3

\* The k-th triangle (1-based) of the index buffer.
Triangle(k) == <<indices[3 * k - 2], indices[3 * k - 1], indices[3 * k]>>

\* C6: for N >= 1 every triangle (a, b, c) emitted by any of the 6 faces is
\* outward-facing in cube space: (pos[b]-pos[a]) x (pos[c]-pos[a]) has a
\* strictly positive dot product with the triangle's centroid.
C6_OutwardWinding ==
    (N >= 1 /\ InCubeSpace) =>
        \A k \in 1..NumberOfTriangles :
            LET t == Triangle(k)
                a == Point(positions, t[1])
                b == Point(positions, t[2])
                c == Point(positions, t[3])
            IN Dot(Cross(Minus(b, a), Minus(c, a)), Plus(a, Plus(b, c))) > 0

C6_Witness ==
    /\ pc = "position"
    /\ N = 3
    /\ faceCalls = 6
    /\ NumberOfTriangles = 108

\* The z component of the turn a loop of four vertices makes at each of its
\* corners; all positive: counter-clockwise seen from +z, all negative:
\* clockwise seen from +z.
Turn(pos, loop, k) ==
    LET p == Point(pos, loop[k])
        q == Point(pos, loop[(k % 4) + 1])
        r == Point(pos, loop[((k + 1) % 4) + 1])
    IN Cross(Minus(q, p), Minus(r, q))[3]

\* Counter-clockwise for a viewer on the side the z axis points to when
\* side = 1, on the opposite side when side = -1.
CounterClockwiseFrom(side, pos, loop) ==
    \A k \in 1..4 : side * Turn(pos, loop, k) > 0

CubeShape ==
    /\ Len(positions) >= 8
    /\ pc = "edges" /\ edges = <<>> => Len(positions) = 8
    /\ \A i \in 0..3 : At(positions, i).z = 0 - N
    /\ \A i \in 4..7 : At(positions, i).z = N
    /\ \A i \in 0..3 : /\ At(positions, i + 4).x = At(positions, i).x
                       /\ At(positions, i + 4).y = At(positions, i).y

\* C7, as stated: the 8 corners lie in z = -1 (0-3) and z = +1 (4-7),
\* corner i + 4 is above corner i, and each loop is counter-clockwise seen
\* from outside the cube (from -z for 0-3, from +z for 4-7).
C7_LoopsCounterClockwiseFromOutside ==
    (N >= 1 /\ InCubeSpace) =>
        /\ CubeShape
        /\ CounterClockwiseFrom(-1, positions, <<0, 1, 2, 3>>)
        /\ CounterClockwiseFrom(1, positions, <<4, 5, 6, 7>>)

\* C7, amended: the 8 corners lie in z = -1 (0-3) and z = +1 (4-7), corner
\* i + 4 is above corner i, and both loops are counter-clockwise seen from
\* +z: the loop 4-7 is counter-clockwise seen from outside, the loop 0-3 is
\* clockwise seen from outside (from -z).
C7_LoopsCounterClockwiseFromAbove ==
    (N >= 1 /\ InCubeSpace) =>
        /\ CubeShape
        /\ CounterClockwiseFrom(1, positions, <<0, 1, 2, 3>>)
        /\ CounterClockwiseFrom(1, positions, <<4, 5, 6, 7>>)
        /\ ~CounterClockwiseFrom(-1, positions, <<0, 1, 2, 3>>)

C7_Witness ==
    /\ pc = "edges"
    /\ edges = <<>>
    /\ Len(positions) = 8
    /\ N = 2

\* C8: for N >= 1 a call addEdgePositions(i0, i1, N, positions) returns N + 1
\* defined indices, the first i0, the last i1, the k-th between them the
\* index of a position this call appended, at
\* positions[i0] + (positions[i1] - positions[i0]) k / N; the call appends
\* exactly N - 1 positions and changes none that was there.
C8_EdgeContract ==
    [][ (pc = "edges" /\ N >= 1) =>
          LET c == EdgeCorners[Len(edges) + 1]
              list == edges'[Len(edges')]
              from == Point(positions, c[1])
              to == Point(positions, c[2])
          IN /\ Len(edges') = Len(edges) + 1
             /\ Len(list) = N + 1
             /\ \A k \in 0..N : At(list, k) # Undefined
             /\ At(list, 0) = c[1]
             /\ At(list, N) = c[2]
             /\ Len(positions') = Len(positions) + (N - 1)
             /\ SubSeq(positions', 1, Len(positions)) = positions
             /\ \A k \in 1..(N - 1) :
                    /\ At(list, k) \in Len(positions)..(Len(positions') - 1)
                    /\ Times(N, Minus(Point(positions', At(list, k)), from))
                           = Times(k, Minus(to, from))
      ]_vars

C8_Witness ==
    /\ pc = "faces"
    /\ faceCalls = 0
    /\ N = 3
    /\ Len(edges) = 12
    /\ Len(positions) = 32

\* C10: for N >= 1 the final index buffer is a closed, consistently oriented
\* surface over the whole position buffer: every index is a position index,
\* every position is used, every triangle has three distinct indices, and
\* every directed edge (a, b) of a triangle occurs in exactly one triangle
\* while (b, a) occurs in exactly one other.
DirectedEdges ==
    UNION { LET t == Triangle(k) IN {<<t[1], t[2]>>, <<t[2], t[3]>>, <<t[3], t[1]>>} :
            k \in 1..NumberOfTriangles }

C10_ClosedOrientedSurface ==
    (N >= 1 /\ Tessellated) =>
        /\ Len(indices) = 3 * NumberOfTriangles
        /\ \A k \in 1..Len(indices) : indices[k] \in 0..(Len(positions) - 1)
        /\ {indices[k] : k \in 1..Len(indices)} = 0..(Len(positions) - 1)
        /\ \A k \in 1..NumberOfTriangles :
               Cardinality({Triangle(k)[1], Triangle(k)[2], Triangle(k)[3]}) = 3
        /\ Cardinality(DirectedEdges) = 3 * NumberOfTriangles
        /\ \A e \in DirectedEdges : <<e[2], e[1]>> \in DirectedEdges
        /\ pc = "done" => this.indexLists[1].values = indices

C10_Witness ==
    /\ pc = "done"
    /\ N = 3
    /\ Len(this.indexLists[1].values) = 324
    /\ Len(positions) = 56

----------------------------------------------------------------------------
\* The grid of one addFaceTriangles call, read back from the indices it pushed.

\* The index pushed at slot s (1..6) of cell k (0..N-1) of row j (1..N) by a
\* call that started with the index buffer at length base.
Pushed(ind, base, j, k, s) == ind[base + ((j - 1) * N + k) * 6 + s]

\* The grid column and row of the vertex each of the 6 slots of cell k of
\* row j stands for: bottom[k], bottom[k+1], top[k+1], bottom[k], top[k+1],
\* top[k].
SlotColumn(k, s) == IF s \in {1, 4, 6} THEN k ELSE k + 1

SlotRow(j, s) == IF s \in {1, 2, 4} THEN j - 1 ELSE j

\* C9: in every addFaceTriangles call (N >= 1) the vertex the emitted
\* triangles use at grid column i, row j is bottomEdge[i] for j = 0,
\* topEdge[i] for j = N, leftEdge[j] for i = 0, rightEdge[j] for i = N, and
\* otherwise a position appended by this call at origin + x i/N + y j/N; each
\* row's bottom indices are the previous row's top indices; the call changes
\* neither the edge lists nor any position that was there.
C9_FaceGrid ==
    [][ (pc = "faces" /\ N >= 1) =>
          LET a == FaceArgs(faceCalls + 1, edges)
              base == Len(indices)
              origin == Point(positions, At(a.bottomLeftToRight, 0))
              x == Minus(Point(positions, At(a.bottomLeftToRight, N)), origin)
              y == Minus(Point(positions, At(a.topLeftToRight, 0)), origin)
          IN /\ Len(indices') = base + 6 * N * N
             /\ SubSeq(indices', 1, base) = indices
             /\ \A j \in 1..N : \A k \in 0..(N - 1) : \A s \in 1..6 :
                    LET v == Pushed(indices', base, j, k, s)
                        col == SlotColumn(k, s)
                        row == SlotRow(j, s)
                    IN /\ row = 0 => v = At(a.bottomLeftToRight, col)
                       /\ row = N => v = At(a.topLeftToRight, col)
                       /\ col = 0 => v = At(a.leftBottomToTop, row)
                       /\ col = N => v = At(a.rightBottomToTop, row)
                       /\ (row \in 1..(N - 1) /\ col \in 1..(N - 1)) =>
                              /\ v \in Len(positions)..(Len(positions') - 1)
                              /\ Times(N, Minus(Point(positions', v), origin))
                                     = Plus(Times(col, x), Times(row, y))
             /\ \A j \in 1..(N - 1) : \A k \in 0..(N - 1) :
                    /\ Pushed(indices', base, j + 1, k, 1) = Pushed(indices', base, j, k, 6)
                    /\ Pushed(indices', base, j + 1, k, 2) = Pushed(indices', base, j, k, 3)
             /\ Len(positions') = Len(positions) + (N - 1) * (N - 1)
             /\ SubSeq(positions', 1, Len(positions)) = positions
             /\ edges' = edges
             /\ FaceArgs(faceCalls + 1, edges') = a
      ]_vars

C9_Witness ==
    /\ pc = "position"
    /\ faceCalls = 6
    /\ N = 3
    /\ Len(indices) = 324
    /\ Len(positions) = 56

----------------------------------------------------------------------------
\* The real vectors two Cartesian3 stand for are equal.  Component k of c is
\* c.scale[k] * coordinate k / D with D = n, or D = the length of (x, y, z)
\* for a normalized c; two such quotients with positive D are equal when
\* their numerators have the same sign and their squares are equal.
Numerator(c, k) == c.scale[k] * Vec(c)[k]

DenominatorSquared(c, n) == IF c.unit THEN Dot(Vec(c), Vec(c)) ELSE n * n

Sign(v) == IF v > 0 THEN 1 ELSE IF v < 0 THEN -1 ELSE 0

SameVector(c, d, n) ==
    \A k \in 1..3 :
        /\ Sign(Numerator(c, k)) = Sign(Numerator(d, k))
        /\ Numerator(c, k) * Numerator(c, k) * DenominatorSquared(d, n)
               = Numerator(d, k) * Numerator(d, k) * DenominatorSquared(c, n)

\* C4: whenever the normal attribute is requested, the value passed to
\* geodeticSurfaceNormal for vertex i is the cube-space position of vertex i
\* as it was before the projection, whether or not the position attribute is
\* requested too.
C4_NormalsFromCubeSpace ==
    (N >= 1 /\ options.vertexFormat.normal /\ pc \in {"assign", "done"}) =>
        /\ Len(normalInputs) = Len(cubeSpace)
        /\ \A i \in 1..Len(normalInputs) :
               SameVector(normalInputs[i], cubeSpace[i], N)

\* C4 restricted to the constructions that do not request the position
\* attribute.
C4_NormalsFromCubeSpaceWithoutPosition ==
    (N >= 1 /\ options.vertexFormat.normal /\ ~options.vertexFormat.position
        /\ pc \in {"assign", "done"}) =>
        /\ Len(normalInputs) = Len(cubeSpace)
        /\ \A i \in 1..Len(normalInputs) :
               SameVector(normalInputs[i], cubeSpace[i], N)

====
